---- MODULE Spec2Model ----
(***************************************************************************)
(* Model of js/main.js: the client-side script of the CipherCoders page.   *)
(*                                                                         *)
(* The script registers one DOMContentLoaded listener (popup timer, close  *)
(* and download controls, VIP form, contact form) and, at top level, wires *)
(* the FAQ accordion.  The document the script runs in is not part of the  *)
(* source; the elements the script looks up are state chosen in Init.      *)
(* The user-facing strings are Russian in the source and are written here  *)
(* in Latin transliteration.                                               *)
(*                                                                         *)
(* The elements the listener tests for (popup, closeBtn, downloadBtn, the  *)
(* two forms) may be absent.  The elements it uses untested (the two       *)
(* status elements, the question, answer and arrow of a FAQ entry) are     *)
(* taken to exist, and form fields to have the empty default value.  The   *)
(* script is taken to be evaluated before DOMContentLoaded fires (a plain  *)
(* or deferred script element), at any point of the parsing.               *)
(***************************************************************************)
EXTENDS Naturals, FiniteSets, Sequences, TLC

\* ---- bounds ------------------------------------------------------------
NumFaq     == 2   \* at most this many .faq-item entries in the document
MaxClicks  == 2   \* clicks counted per FAQ question
MaxVal     == 1   \* distinct non-empty contents a form's fields may hold
MaxSubmits == 2   \* submit events per form
MaxOpens   == 4   \* download clicks
MaxCloses  == 2   \* clicks on the close control

\* ---- constants of the program -------------------------------------------
Forms == {"vip", "contact"}
Other(f) == IF f = "vip" THEN "contact" ELSE "vip"

\* The field values of a form are one value of 0..MaxVal: Empty when every
\* field holds its default (empty) text, a different number for each other
\* combination of texts.
Empty == 0
NoText == ""               \* a status element nobody wrote to
ConnectionError == "Oshibka soedineniya."
Endpoint == "https://script.google.com/macros/s/AKfycbxq.../exec"

SuccessMsg(f) == IF f = "vip" THEN "Zayavka otpravlena!"
                              ELSE "Soobshchenie otpravleno!"
FailureMsg(f) == IF f = "vip" THEN "Oshibka otpravki." ELSE "Oshibka."

Outcomes == {"ok", "notok", "throw"}
FieldVals == 0..MaxVal
FaqIds == 1..NumFaq

VARIABLES
  \* the document
  popupExists, closeBtnExists, downloadBtnExists, formExists, faqCount,
  popupInit, answerInit, arrowInit,
  \* page load
  parsed, scriptDone, domReady,
  \* popup controller
  popupShow, timer, opened, closeClicks, uncaught,
  \* form submitters
  fields, status, inflight, submits, requests, completed, lastOutcome,
  lastDone,
  \* accordion
  faqHandler, answerShow, arrowRotate, clicks

docVars   == <<popupExists, closeBtnExists, downloadBtnExists, formExists,
               faqCount, popupInit, answerInit, arrowInit>>
loadVars  == <<parsed, scriptDone, domReady>>
popupVars == <<popupShow, timer, opened, closeClicks>>
formVars  == <<fields, status, inflight, submits, requests, completed,
               lastOutcome, lastDone>>
faqVars   == <<faqHandler, answerShow, arrowRotate, clicks>>
vars == <<docVars, loadVars, popupVars, uncaught, formVars, faqVars>>

\* ---- pure helpers ---------------------------------------------------------
\* classList.add in place of classList.toggle
ToggleAsAdd(b) == TRUE

\* classList.toggle(c): present becomes absent, absent becomes present
Toggle(b) == ~b

\* form.reset(): every field goes back to its default value
ResetForm(fm) == Empty

\* new FormData() built without the form: an empty body
FormDataNoForm(fm) == Empty

\* new FormData(form): a copy of the field values at construction time
FormData(fm) == fm

\* the two branches of the conditional exchanged
StatusTextInverted(f, outcome) ==
  IF outcome = "ok" THEN FailureMsg(f)
  ELSE IF outcome = "notok" THEN SuccessMsg(f)
  ELSE ConnectionError

\* res.ok ? success : failure, or the catch branch
StatusText(f, outcome) ==
  IF outcome = "ok" THEN SuccessMsg(f)
  ELSE IF outcome = "notok" THEN FailureMsg(f)
  ELSE ConnectionError

\* ---- initial state --------------------------------------------------------
Init ==
  /\ popupExists \in BOOLEAN
  /\ closeBtnExists \in BOOLEAN
  /\ downloadBtnExists \in BOOLEAN
  /\ formExists \in [Forms -> BOOLEAN]
  /\ faqCount \in 0..NumFaq
  /\ popupInit \in {b \in BOOLEAN : b => popupExists}
  /\ answerInit \in {a \in [FaqIds -> BOOLEAN] : \A i \in FaqIds : a[i] => i <= faqCount}
  /\ arrowInit \in {a \in [FaqIds -> BOOLEAN] : \A i \in FaqIds : a[i] => i <= faqCount}
  /\ parsed = 0
  /\ scriptDone = FALSE
  /\ domReady = FALSE
  /\ popupShow = popupInit
  /\ timer = "unset"
  /\ opened = 0
  /\ closeClicks = 0
  /\ uncaught = {}
  /\ fields = [f \in Forms |-> Empty]
  /\ status = [f \in Forms |-> NoText]
  /\ inflight = [f \in Forms |-> {}]
  /\ submits = [f \in Forms |-> 0]
  /\ requests = [f \in Forms |-> 0]
  /\ completed = [f \in Forms |-> 0]
  /\ lastOutcome = [f \in Forms |-> "none"]
  /\ lastDone = [f \in Forms |-> 0]
  /\ faqHandler = [i \in FaqIds |-> FALSE]
  /\ answerShow = answerInit
  /\ arrowRotate = arrowInit
  /\ clicks = [i \in FaqIds |-> 0]

\* ---- page load ------------------------------------------------------------
\* the parser appends the next .faq-item entry to the document
ParseItem ==
  /\ ~domReady
  /\ parsed < faqCount
  /\ parsed' = parsed + 1
  /\ UNCHANGED <<docVars, scriptDone, domReady, popupVars, uncaught,
                 formVars, faqVars>>

\* the script is evaluated: the DOMContentLoaded listener is registered and
\* the top-level FAQ wiring runs over the entries matched right now
EvalScript ==
  /\ ~scriptDone
  /\ scriptDone' = TRUE
  /\ faqHandler' = [i \in FaqIds |-> i <= parsed]
  /\ UNCHANGED <<docVars, parsed, domReady, popupVars, uncaught, formVars,
                 answerShow, arrowRotate, clicks>>

\* DOMContentLoaded fires once the document is parsed and the script has run
DomContentLoaded ==
  /\ scriptDone
  /\ ~domReady
  /\ parsed = faqCount
  /\ domReady' = TRUE
  /\ timer' = IF popupExists THEN "pending" ELSE timer
  /\ UNCHANGED <<docVars, parsed, scriptDone, popupShow, opened, closeClicks,
                 uncaught, formVars, faqVars>>

\* ---- popup controller -----------------------------------------------------
\* a timer callback that does not add the class
TimerFireNoShow ==
  /\ timer = "pending"
  /\ timer' = "fired"
  /\ UNCHANGED <<docVars, loadVars, popupShow, opened, closeClicks, uncaught,
                 formVars, faqVars>>

\* setInterval in place of setTimeout: the callback runs again and again
TimerFireInterval ==
  /\ timer \in {"pending", "fired"}
  /\ timer' = "fired"
  /\ popupShow' = TRUE
  /\ UNCHANGED <<docVars, loadVars, opened, closeClicks, uncaught, formVars,
                 faqVars>>

\* the 1000 ms timer callback
TimerFire ==
  /\ timer = "pending"
  /\ timer' = "fired"
  /\ popupShow' = TRUE
  /\ UNCHANGED <<docVars, loadVars, opened, closeClicks, uncaught, formVars,
                 faqVars>>

\* a close handler that toggles the class instead of removing it
CloseClickToggle ==
  /\ domReady
  /\ closeBtnExists
  /\ closeClicks < MaxCloses
  /\ closeClicks' = closeClicks + 1
  /\ IF popupExists
       THEN popupShow' = ~popupShow /\ UNCHANGED uncaught
       ELSE uncaught' = uncaught \cup {"close"} /\ UNCHANGED popupShow
  /\ UNCHANGED <<docVars, loadVars, timer, opened, formVars, faqVars>>

\* a close handler that also clears the pending timer
CloseClickCancels ==
  /\ domReady
  /\ closeBtnExists
  /\ closeClicks < MaxCloses
  /\ closeClicks' = closeClicks + 1
  /\ timer' = IF timer = "pending" THEN "cancelled" ELSE timer
  /\ IF popupExists
       THEN popupShow' = FALSE /\ UNCHANGED uncaught
       ELSE uncaught' = uncaught \cup {"close"} /\ UNCHANGED popupShow
  /\ UNCHANGED <<docVars, loadVars, opened, formVars, faqVars>>

\* click on the close control; popup may be null, the handler does not test it
CloseClick ==
  /\ domReady
  /\ closeBtnExists
  /\ closeClicks < MaxCloses
  /\ closeClicks' = closeClicks + 1
  /\ IF popupExists
       THEN popupShow' = FALSE /\ UNCHANGED uncaught
       ELSE uncaught' = uncaught \cup {"close"} /\ UNCHANGED popupShow
  /\ UNCHANGED <<docVars, loadVars, timer, opened, formVars, faqVars>>

\* click on the download control
DownloadClick ==
  /\ domReady
  /\ downloadBtnExists
  /\ opened < MaxOpens
  /\ opened' = opened + 1
  /\ UNCHANGED <<docVars, loadVars, popupShow, timer, closeClicks, uncaught,
                 formVars, faqVars>>

\* ---- form submitters ------------------------------------------------------
\* the user edits the fields of a form
TypeField(f, v) ==
  /\ formExists[f]
  /\ fields[f] # v
  /\ fields' = [fields EXCEPT ![f] = v]
  /\ UNCHANGED <<docVars, loadVars, popupVars, uncaught, status, inflight,
                 submits, requests, completed, lastOutcome, lastDone,
                 faqVars>>

\* submit event: preventDefault, FormData snapshot, fetch issued, handler
\* suspends at the await
Submit(f) ==
  /\ domReady
  /\ formExists[f]
  /\ submits[f] < MaxSubmits
  /\ submits' = [submits EXCEPT ![f] = @ + 1]
  /\ requests' = [requests EXCEPT ![f] = @ + 1]
  /\ inflight' = [inflight EXCEPT
                    ![f] = @ \cup {[n |-> submits[f] + 1,
                                    url |-> Endpoint,
                                    body |-> FormData(fields[f])]}]
  /\ UNCHANGED <<docVars, loadVars, popupVars, uncaught, fields, status,
                 completed, lastOutcome, lastDone, faqVars>>

\* a handler without the try/catch: a rejected fetch ends it at the await
CompleteNoCatch(f, r, outcome) ==
  /\ r \in inflight[f]
  /\ inflight' = [inflight EXCEPT ![f] = @ \ {r}]
  /\ completed' = [completed EXCEPT ![f] = @ + 1]
  /\ lastOutcome' = [lastOutcome EXCEPT ![f] = outcome]
  /\ lastDone' = [lastDone EXCEPT ![f] = r.n]
  /\ IF outcome = "throw"
       THEN /\ uncaught' = uncaught \cup {f}
            /\ UNCHANGED <<status, fields>>
       ELSE /\ status' = [status EXCEPT ![f] = StatusText(f, outcome)]
            /\ fields' = [fields EXCEPT ![f] = ResetForm(@)]
            /\ UNCHANGED uncaught
  /\ UNCHANGED <<docVars, loadVars, popupVars, submits, requests, faqVars>>

\* a handler that resets the form only next to the success message
CompleteResetOnOk(f, r, outcome) ==
  /\ r \in inflight[f]
  /\ inflight' = [inflight EXCEPT ![f] = @ \ {r}]
  /\ status' = [status EXCEPT ![f] = StatusText(f, outcome)]
  /\ fields' = [fields EXCEPT ![f] = IF outcome = "ok" THEN ResetForm(@) ELSE @]
  /\ completed' = [completed EXCEPT ![f] = @ + 1]
  /\ lastOutcome' = [lastOutcome EXCEPT ![f] = outcome]
  /\ lastDone' = [lastDone EXCEPT ![f] = r.n]
  /\ UNCHANGED <<docVars, loadVars, popupVars, uncaught, submits, requests,
                 faqVars>>

\* a handler that sends the request again when the fetch is rejected
CompleteRetry(f, r, outcome) ==
  /\ r \in inflight[f]
  /\ completed' = [completed EXCEPT ![f] = @ + 1]
  /\ lastOutcome' = [lastOutcome EXCEPT ![f] = outcome]
  /\ lastDone' = [lastDone EXCEPT ![f] = r.n]
  /\ IF outcome = "throw"
       THEN /\ requests' = [requests EXCEPT ![f] = @ + 1]
            /\ UNCHANGED <<inflight, status, fields>>
       ELSE /\ inflight' = [inflight EXCEPT ![f] = @ \ {r}]
            /\ status' = [status EXCEPT ![f] = StatusText(f, outcome)]
            /\ fields' = [fields EXCEPT ![f] = ResetForm(@)]
            /\ UNCHANGED requests
  /\ UNCHANGED <<docVars, loadVars, popupVars, uncaught, submits, faqVars>>

\* both handlers writing to the element with id "status"
CompleteSharedStatus(f, r, outcome) ==
  /\ r \in inflight[f]
  /\ inflight' = [inflight EXCEPT ![f] = @ \ {r}]
  /\ status' = [status EXCEPT !["vip"] = StatusText(f, outcome)]
  /\ fields' = [fields EXCEPT ![f] = ResetForm(@)]
  /\ completed' = [completed EXCEPT ![f] = @ + 1]
  /\ lastOutcome' = [lastOutcome EXCEPT ![f] = outcome]
  /\ lastDone' = [lastDone EXCEPT ![f] = r.n]
  /\ UNCHANGED <<docVars, loadVars, popupVars, uncaught, submits, requests,
                 faqVars>>

\* a handler that drops the response of every request but the newest
CompleteLatestOnly(f, r, outcome) ==
  /\ r \in inflight[f]
  /\ inflight' = [inflight EXCEPT ![f] = @ \ {r}]
  /\ completed' = [completed EXCEPT ![f] = @ + 1]
  /\ lastOutcome' = [lastOutcome EXCEPT ![f] = outcome]
  /\ lastDone' = [lastDone EXCEPT ![f] = r.n]
  /\ IF r.n = submits[f]
       THEN /\ status' = [status EXCEPT ![f] = StatusText(f, outcome)]
            /\ fields' = [fields EXCEPT ![f] = ResetForm(@)]
       ELSE UNCHANGED <<status, fields>>
  /\ UNCHANGED <<docVars, loadVars, popupVars, uncaught, submits, requests,
                 faqVars>>

\* the awaited fetch settles and the handler runs to its end
Complete(f, r, outcome) ==
  /\ r \in inflight[f]
  /\ inflight' = [inflight EXCEPT ![f] = @ \ {r}]
  /\ status' = [status EXCEPT ![f] = StatusText(f, outcome)]
  /\ fields' = [fields EXCEPT ![f] = ResetForm(@)]
  /\ completed' = [completed EXCEPT ![f] = @ + 1]
  /\ lastOutcome' = [lastOutcome EXCEPT ![f] = outcome]
  /\ lastDone' = [lastDone EXCEPT ![f] = r.n]
  /\ UNCHANGED <<docVars, loadVars, popupVars, uncaught, submits, requests,
                 faqVars>>

\* ---- accordion ------------------------------------------------------------
\* an accordion that closes the other entries when one is clicked
FaqClickExclusive(i) ==
  /\ i <= parsed
  /\ faqHandler[i]
  /\ clicks[i] < MaxClicks
  /\ answerShow' = [j \in FaqIds |-> IF j = i THEN Toggle(answerShow[j]) ELSE FALSE]
  /\ arrowRotate' = [j \in FaqIds |-> IF j = i THEN Toggle(arrowRotate[j]) ELSE FALSE]
  /\ clicks' = [clicks EXCEPT ![i] = @ + 1]
  /\ UNCHANGED <<docVars, loadVars, popupVars, uncaught, formVars,
                 faqHandler>>

\* a handler that toggles the answer and leaves the arrow alone
FaqClickAnswerOnly(i) ==
  /\ i <= parsed
  /\ faqHandler[i]
  /\ clicks[i] < MaxClicks
  /\ answerShow' = [answerShow EXCEPT ![i] = Toggle(@)]
  /\ clicks' = [clicks EXCEPT ![i] = @ + 1]
  /\ UNCHANGED <<docVars, loadVars, popupVars, uncaught, formVars,
                 faqHandler, arrowRotate>>

\* click on the question of entry i
FaqClick(i) ==
  /\ i <= parsed
  /\ faqHandler[i]
  /\ clicks[i] < MaxClicks
  /\ answerShow' = [answerShow EXCEPT ![i] = Toggle(@)]
  /\ arrowRotate' = [arrowRotate EXCEPT ![i] = Toggle(@)]
  /\ clicks' = [clicks EXCEPT ![i] = @ + 1]
  /\ UNCHANGED <<docVars, loadVars, popupVars, uncaught, formVars,
                 faqHandler>>

\* ---- specification --------------------------------------------------------
Next ==
  \/ ParseItem
  \/ EvalScript
  \/ DomContentLoaded
  \/ TimerFire
  \/ CloseClick
  \/ DownloadClick
  \/ \E f \in Forms, v \in FieldVals : TypeField(f, v)
  \/ \E f \in Forms : Submit(f)
  \/ \E f \in Forms, o \in Outcomes : \E r \in inflight[f] : Complete(f, r, o)
  \/ \E i \in FaqIds : FaqClick(i)

Spec == Init /\ [][Next]_vars

\* ---- the pages the script is loaded on ------------------------------------
\* Every lookup of the listener is guarded by a test for the element, so the
\* script serves pages that hold only some of the elements.

\* a page with the popup controls only
InitPopup ==
  /\ Init
  /\ faqCount = 0
  /\ \A f \in Forms : ~formExists[f]

NextPopup ==
  \/ EvalScript
  \/ DomContentLoaded
  \/ TimerFire
  \/ CloseClick
  \/ DownloadClick

SpecPopup == InitPopup /\ [][NextPopup]_vars

\* a page with the forms only
InitForms ==
  /\ Init
  /\ faqCount = 0
  /\ ~popupExists /\ ~closeBtnExists /\ ~downloadBtnExists

NextForms ==
  \/ EvalScript
  \/ DomContentLoaded
  \/ \E f \in Forms, v \in FieldVals : TypeField(f, v)
  \/ \E f \in Forms : Submit(f)
  \/ \E f \in Forms, o \in Outcomes : \E r \in inflight[f] : Complete(f, r, o)

SpecForms == InitForms /\ [][NextForms]_vars

\* a page with the FAQ accordion only
InitFaq ==
  /\ Init
  /\ ~popupExists /\ ~closeBtnExists /\ ~downloadBtnExists
  /\ \A f \in Forms : ~formExists[f]

NextFaq ==
  \/ ParseItem
  \/ EvalScript
  \/ DomContentLoaded
  \/ \E i \in FaqIds : FaqClick(i)

SpecFaq == InitFaq /\ [][NextFaq]_vars

\* a page with the popup controls, the VIP form and one FAQ entry
InitHome ==
  /\ Init
  /\ popupExists /\ closeBtnExists /\ downloadBtnExists
  /\ formExists["vip"] /\ ~formExists["contact"]
  /\ faqCount = 1

SpecHome == InitHome /\ [][Next]_vars

\* ---- properties -----------------------------------------------------------

\* C1: a popup that exists and does not start with the class "show" does not
\* carry it in any state before the timer has fired, and carries it in the
\* state right after the timer fires.
C1_PopupReveal ==
  /\ [](popupExists /\ ~popupInit /\ timer # "fired" => ~popupShow)
  /\ [][popupExists /\ ~popupInit /\ timer # "fired" /\ timer' = "fired"
          => popupShow']_vars

C1_Witness ==
  popupExists /\ ~popupInit /\ domReady /\ timer = "fired" /\ popupShow

\* C2: whatever the popup carried before, the state right after a click on
\* the close control has the popup without the class "show".
C2_CloseRemoves == [][CloseClick => ~popupShow']_vars

\* the timer has shown the popup and a close click has hidden it again
C2_Witness ==
  popupExists /\ closeBtnExists /\ timer = "fired" /\ ~popupShow

\* a request of form f settles with the given outcome in this step
Settles(f, outcome) ==
  /\ completed'[f] = completed[f] + 1
  /\ lastOutcome'[f] = outcome

\* C3: when a request of a form settles with an ok response, the form's
\* status shows that form's success string and its fields are empty when the
\* handler has finished.
C3_SuccessPath ==
  [][\A f \in Forms :
       Settles(f, "ok") => status'[f] = SuccessMsg(f) /\ fields'[f] = Empty]_vars

C3_Witness ==
  \A f \in Forms :
    /\ lastOutcome[f] = "ok"
    /\ status[f] = SuccessMsg(f)
    /\ fields[f] = Empty
    /\ inflight[f] = {}

\* C4: when the fetch of a form is rejected, the status shows the
\* connection-error string, the fields are empty when the handler has
\* finished, and no exception leaves the handler.
C4_NetworkFailurePath ==
  [][\A f \in Forms :
       Settles(f, "throw") =>
         /\ status'[f] = ConnectionError
         /\ fields'[f] = Empty
         /\ f \notin uncaught']_vars

C4_Witness ==
  \A f \in Forms :
    /\ lastOutcome[f] = "throw"
    /\ status[f] = ConnectionError
    /\ fields[f] = Empty
    /\ f \notin uncaught

\* C5: whatever the outcome of a request, the form is cleared once the
\* outcome is reported; a non-ok response shows the failure string, never the
\* success string, and a rejected fetch never shows the success string.
C5_UnconditionalReset ==
  [][\A f \in Forms : \A o \in Outcomes :
       Settles(f, o) =>
         /\ fields'[f] = Empty
         /\ status'[f] # NoText
         /\ (o = "notok" => status'[f] = FailureMsg(f))
         /\ (o # "ok" => status'[f] # SuccessMsg(f))]_vars

C5_Witness ==
  \E f \in Forms :
    /\ lastOutcome[f] = "notok"
    /\ status[f] = FailureMsg(f)
    /\ fields[f] = Empty
    /\ completed[f] = 2

\* C6: the number of requests issued by a form equals the number of submit
\* events it handled, every request goes to the fixed endpoint, and every
\* request issued is either in flight or settled.
C6_SingleRequest ==
  \A f \in Forms :
    /\ requests[f] = submits[f]
    /\ requests[f] = completed[f] + Cardinality(inflight[f])
    /\ \A r \in inflight[f] : r.url = Endpoint

\* two submits of one form, one settled by a rejected fetch, one in flight
C6_Witness ==
  \E f \in Forms :
    /\ submits[f] = 2
    /\ requests[f] = 2
    /\ lastOutcome[f] = "throw"
    /\ Cardinality(inflight[f]) = 1

\* the value of a class after k toggles of the initial value
AfterClicks(init, k) == IF k % 2 = 0 THEN init ELSE ~init

\* C7: after an even number of clicks on its question the answer of a FAQ
\* entry has its original "show" membership, after an odd number the
\* opposite one.
C7_ToggleParity ==
  \A i \in FaqIds : answerShow[i] = AfterClicks(answerInit[i], clicks[i])

\* two clicks on an entry that started shown and on one that started hidden
C7_Witness ==
  \E i, j \in FaqIds :
    /\ clicks[i] = 2 /\ answerInit[i] /\ answerShow[i]
    /\ clicks[j] = 2 /\ ~answerInit[j] /\ ~answerShow[j]

\* C8: a click on the question of one FAQ entry leaves the answer and the
\* arrow of every other entry as they were.
C8_FaqIndependence ==
  [][\A i \in FaqIds :
       clicks'[i] # clicks[i] =>
         \A j \in FaqIds \ {i} :
           /\ answerShow'[j] = answerShow[j]
           /\ arrowRotate'[j] = arrowRotate[j]]_vars

\* two entries that started closed are both open after one click each
C8_Witness ==
  \E i, j \in FaqIds :
    /\ i # j
    /\ ~answerInit[i] /\ clicks[i] = 1 /\ answerShow[i] /\ arrowRotate[i] # arrowInit[i]
    /\ ~answerInit[j] /\ clicks[j] = 1 /\ answerShow[j] /\ arrowRotate[j] # arrowInit[j]

\* C9: a submit or a settled request of one form leaves the other form's
\* status, fields and requests as they were, and a request in flight can
\* settle whatever the other form is doing.
C9_FormIsolation ==
  /\ [][\A f \in Forms :
          (submits'[f] # submits[f] \/ completed'[f] # completed[f]) =>
            /\ status'[Other(f)] = status[Other(f)]
            /\ fields'[Other(f)] = fields[Other(f)]
            /\ inflight'[Other(f)] = inflight[Other(f)]]_vars
  /\ [](\A f \in Forms : \A r \in inflight[f] : \A o \in Outcomes :
          ENABLED Complete(f, r, o))

\* the contact request settled and reset its form while the VIP request,
\* issued with filled fields, is still in flight and the VIP form untouched
C9_Witness ==
  /\ inflight["vip"] # {}
  /\ status["vip"] = NoText
  /\ fields["vip"] # Empty
  /\ completed["contact"] = 1
  /\ status["contact"] = SuccessMsg("contact")
  /\ fields["contact"] = Empty

\* C10: once the page is ready, every FAQ entry of the document has a click
\* handler on its question, whatever the order of script evaluation and
\* document parsing.
C10_FaqAttachment ==
  domReady => \A i \in FaqIds : i <= faqCount => faqHandler[i]

\* C11: the body of a request is the form's field values at the moment of the
\* submit event, and no later step (an edit of the fields, a reset, another
\* submit) changes the body of a request in flight.
C11_BodySnapshot ==
  [][\A f \in Forms : \A r \in inflight'[f] :
       \/ r \in inflight[f]
       \/ /\ submits'[f] = submits[f] + 1
          /\ r.n = submits'[f]
          /\ r.body = fields[f]]_vars

\* a request sent with filled fields is in flight and the fields have been
\* edited since
C11_Witness ==
  \E f \in Forms : \E r \in inflight[f] :
    r.body # Empty /\ fields[f] # r.body

\* C12: a click on the close control leaves the timer as it is, and a timer
\* that fires after such clicks still puts "show" on the popup.
C12_CloseDoesNotCancel ==
  /\ [][closeClicks' # closeClicks => timer' = timer]_vars
  /\ [][closeClicks > 0 /\ timer = "pending" /\ timer' = "fired"
          => popupShow']_vars

\* the popup started with "show", was closed while the timer was pending,
\* and carries "show" again now that the timer has fired
C12_Witness ==
  /\ popupExists /\ popupInit
  /\ closeClicks = 1
  /\ timer = "fired"
  /\ popupShow

\* C13: "show" is put on the popup only by the timer callback, the timer
\* fires once, and a popup closed after the timer has fired stays without
\* "show" whatever download clicks, submissions or FAQ clicks follow.
C13_RevealedAtMostOnce ==
  /\ [][~popupShow /\ popupShow' => timer = "pending" /\ timer' = "fired"]_vars
  /\ [][timer = "fired" /\ ~popupShow => timer' = "fired" /\ ~popupShow']_vars

\* the popup was revealed and closed, and the download control, the form
\* and the FAQ entry have all been used
C13_Witness ==
  /\ ~popupInit /\ timer = "fired" /\ closeClicks = 1 /\ ~popupShow
  /\ opened > 0
  /\ completed["vip"] > 0
  /\ clicks[1] > 0

\* C14: a form can be submitted again while a request of it is in flight;
\* whenever a request settles, in whatever order, the status is overwritten
\* with the text of that response and the fields are cleared, so the status
\* always shows the response that settled last.
C14_OverlappingSubmits ==
  /\ [](\A f \in Forms :
          domReady /\ formExists[f] /\ submits[f] < MaxSubmits
            => ENABLED Submit(f))
  /\ [](\A f \in Forms :
          completed[f] > 0 => status[f] = StatusText(f, lastOutcome[f]))
  /\ [][\A f \in Forms :
          lastDone'[f] # lastDone[f] \/ completed'[f] # completed[f]
            => fields'[f] = Empty]_vars

\* two requests of a form overlapped, the second settled first and the
\* first settled last with a rejected fetch: the status shows the connection
\* error
C14_Witness ==
  \E f \in Forms :
    /\ submits[f] = 2
    /\ inflight[f] = {}
    /\ completed[f] = 2
    /\ lastDone[f] = 1
    /\ lastOutcome[f] = "throw"
    /\ status[f] = ConnectionError

\* C15: in every state the answer of a FAQ entry differs from its initial
\* "show" membership exactly when its arrow differs from its initial "rotate"
\* membership; with both absent at the start, the answer is shown iff the
\* arrow is rotated.
C15_LockStep ==
  \A i \in FaqIds :
    /\ (answerShow[i] # answerInit[i]) <=> (arrowRotate[i] # arrowInit[i])
    /\ (~answerInit[i] /\ ~arrowInit[i]) => (answerShow[i] <=> arrowRotate[i])

\* one entry that started with both classes absent and one that started
\* with the answer shown and the arrow not rotated, each clicked once
C15_Witness ==
  \E i, j \in FaqIds :
    /\ ~answerInit[i] /\ ~arrowInit[i] /\ clicks[i] = 1
    /\ answerShow[i] /\ arrowRotate[i]
    /\ answerInit[j] /\ ~arrowInit[j] /\ clicks[j] = 1
    /\ ~answerShow[j] /\ arrowRotate[j]

TypeOK ==
  /\ parsed \in 0..NumFaq
  /\ timer \in {"unset", "pending", "fired"}
  /\ fields \in [Forms -> FieldVals]
====
